---- MODULE Spec2Model ----
(***************************************************************************)
(* EnumMap of fixed_containers: a map over a finite key domain that keeps  *)
(* one storage slot and one presence bit per ordinal, plus a cached size.  *)
(* The engine is modelled as a record e with the fields of EnumMapBase:    *)
(*   values_    slot storage: <<>> for storage holding no element (never   *)
(*              constructed, or destroyed), <<v>> for a live element v     *)
(*   array_set_ the presence bits                                          *)
(*   size_      the cached size; a negative number stands for a wrapped    *)
(*              std::size_t                                                *)
(*   log        the element lifetime events (construct, destroy, assign)   *)
(*              of the call in progress                                    *)
(* Every member function is an operator from the engine (and arguments) to *)
(* a result [e, ret, policy, aborted]; every action applies one of them.   *)
(* The engine of the single-engine actions is a; the special member        *)
(* functions of EnumMap (copy, move, destructor) involve a second one, b.  *)
(***************************************************************************)
EXTENDS Integers, Sequences, FiniteSets, TLC

\* Size of the key domain (EnumAdapterType::count()) of enum class Color.
ENUM_COUNT == 3
\* Mapped values are 0 .. MaxValue.
MaxValue == 2

\* enum class Color { RED, YELLOW, BLUE }
Color == <<"RED", "YELLOW", "BLUE">>

Ordinals == 0 .. (ENUM_COUNT - 1)

\* EnumAdapterType::values(): the domain values indexed by ordinal.
ENUM_VALUES == [i \in Ordinals |-> Color[i + 1]]

K == {ENUM_VALUES[i] : i \in Ordinals}

\* EnumAdapterType::ordinal(key)
ordinal(key) == CHOOSE i \in Ordinals : ENUM_VALUES[i] = key

V == 0 .. MaxValue

\* V(): the value-initialised mapped value.
DefaultV == 0

\* Longest pair list handed to a factory: long enough to cover the domain
\* and repeat one key.
MaxPairs == ENUM_COUNT + 1

VARIABLES values_, array_set_, size_, pre, call, ret, policy, aborted,
          example, pairs, other, pre_other, alive, events, balance,
          iter, pre_iter

vars == <<values_, array_set_, size_, pre, call, ret, policy, aborted,
          example, pairs, other, pre_other, alive, events, balance,
          iter, pre_iter>>

\* The engine the actions operate on (engine a).
Self ==
    [values_ |-> values_, array_set_ |-> array_set_, size_ |-> size_, log |-> <<>>]

----------------------------------------------------------------------------
(* Checking policy and preconditions *)

\* preconditions::test(condition): true when the condition is NOT satisfied.
test(condition) == ~condition

\* AbortChecking: each operation is [[noreturn]] and calls std::abort().
out_of_range(key, sz) == [name |-> "out_of_range", key |-> key, size |-> sz]

duplicate_enum_entries == [name |-> "duplicate_enum_entries", key |-> "-", size |-> 0]

missing_enum_entries == [name |-> "missing_enum_entries", key |-> "-", size |-> 0]

----------------------------------------------------------------------------
(* Results of a member function *)

NoRet == [kind |-> "none"]

IteratorBool(it, b) == [kind |-> "iterator_bool", first |-> it, second |-> b]

IteratorRet(it) == [kind |-> "iterator", first |-> it]

SizeRet(n) == [kind |-> "size_type", n |-> n]

\* A V& to the element of slot i.
RefRet(i) == [kind |-> "reference", index |-> i]

EngineRet == [kind |-> "engine"]

BoolRet(b) == [kind |-> "bool", value |-> b]

Returns(e, r) == [e |-> e, ret |-> r, policy |-> <<>>, aborted |-> FALSE]

\* The policy operation is called and does not return.
Aborts(e, c) == [e |-> e, ret |-> NoRet, policy |-> <<c>>, aborted |-> TRUE]

----------------------------------------------------------------------------
(* EnumMapBase: storage accessors *)

\* EnumMapBase(): no slot written, no bit set, size 0.
EnumMapBase ==
    [values_    |-> [i \in Ordinals |-> <<>>],
     array_set_ |-> [i \in Ordinals |-> FALSE],
     size_      |-> 0,
     log        |-> <<>>]

array_set_unchecked_at(e, i) == e.array_set_[i]

\* array_set_unchecked_at(i) = b
array_set_assign(e, i, b) == [e EXCEPT !.array_set_[i] = b]

values_unchecked_at(e, i) == e.values_[i]

\* optional_storage_detail::get(storage)
get(storage) == storage[1]

unchecked_at(e, i) == get(e.values_[i])

contains_at(e, i) == array_set_unchecked_at(e, i)

size(e) == e.size_

empty(e) == size(e) = 0

increment_size(e, n) == [e EXCEPT !.size_ = @ + n]

decrement_size_skipped(e, n) == e

decrement_size(e, n) == [e EXCEPT !.size_ = @ - n]

\* A lifetime event at slot i, which holds a live element (or not) when it
\* happens.
Event(op, e, i) == [op |-> op, index |-> i, live |-> e.values_[i] # <<>>]

\* std::construct_at(&values_unchecked_at(i), v)
construct_at(e, i, v) ==
    [e EXCEPT !.values_[i] = <<v>>, !.log = Append(@, Event("construct", e, i))]

\* std::destroy_at(&unchecked_at(i)): the element's lifetime ends.
destroy_at(e, i) ==
    [e EXCEPT !.values_[i] = <<>>, !.log = Append(@, Event("destroy", e, i))]

\* OptionalStorage<V>::operator=: the slot then holds v; assigned to the
\* element when the slot holds one, constructed when it holds none.
optional_storage_assign(e, i, v) ==
    [e EXCEPT !.values_[i] = <<v>>,
              !.log = Append(@, Event(IF e.values_[i] # <<>> THEN "assign" ELSE "construct",
                                      e, i))]

\* values_unchecked_at(i) = OptionalV(v)
values_assign(e, i, v) == optional_storage_assign(e, i, v)

set_size(e, n) == [e EXCEPT !.size_ = n]

reset_at_without_destroy(e, i) == decrement_size(array_set_assign(e, i, FALSE), 1)

reset_at(e, i) == decrement_size(array_set_assign(destroy_at(e, i), i, FALSE), 1)

----------------------------------------------------------------------------
(* Iterators: IndexRangePredicateIterator over the presence bits *)

IndexPredicate(e, i) == (e.array_set_)[i]

\* The cursor built at start_index rests on the first index >= start_index
\* whose presence bit is set, or on end_index.
IndexRangePredicateIterator(e, start_index, end_index) ==
    LET hits == {i \in start_index .. (end_index - 1) : IndexPredicate(e, i)}
    IN  [current_index_ |->
            IF hits = {} THEN end_index
            ELSE CHOOSE i \in hits : \A j \in hits : i <= j]

\* ++ on a forward cursor: the next index whose presence bit is set, or end.
advance(e, it) ==
    IF it.current_index_ >= ENUM_COUNT THEN it
    ELSE IndexRangePredicateIterator(e, it.current_index_ + 1, ENUM_COUNT)

create_iterator(e, start_index) == IndexRangePredicateIterator(e, start_index, ENUM_COUNT)

begin_past_first(e) == create_iterator(e, 1)

begin(e) == create_iterator(e, 0)

end(e) == create_iterator(e, ENUM_COUNT)

\* PairProvider::get(): the pair (key of the index, element of the slot).
PairProvider_get(e, it) ==
    <<ENUM_VALUES[it.current_index_], get(values_unchecked_at(e, it.current_index_))>>

\* The position one before index 0, where a reverse cursor ends.
BeforeBegin == 0 - 1

Positions == BeforeBegin .. ENUM_COUNT

\* -- on a forward cursor, ++ on a reverse one: the previous index whose
\* presence bit is set, or before-begin. Receding a cursor that is before-begin
\* violates the precondition: it then rests on ub, whichever position that is.
recede(e, it, ub) ==
    IF it.current_index_ = BeforeBegin THEN [current_index_ |-> ub]
    ELSE LET hits == {i \in 0 .. (it.current_index_ - 1) : IndexPredicate(e, i)}
         IN  [current_index_ |->
                 IF hits = {} THEN BeforeBegin
                 ELSE CHOOSE i \in hits : \A j \in hits : i >= j]

\* The reverse cursor built at start_index is pre-advanced: it rests on the
\* last index < start_index whose presence bit is set, or before-begin
\* (start_index >= 0, so ub is not used).
ReverseIndexRangePredicateIterator(e, start_index, end_index) ==
    recede(e, [current_index_ |-> start_index], BeforeBegin)

create_reverse_iterator(e, start_index) ==
    ReverseIndexRangePredicateIterator(e, start_index, ENUM_COUNT)

rbegin_at_rend(e) == create_reverse_iterator(e, 0)

rbegin(e) == create_reverse_iterator(e, ENUM_COUNT)

rend(e) == create_reverse_iterator(e, 0)

----------------------------------------------------------------------------
(* BidirectionalIterator over a reference provider. The provider is the    *)
(* cursor above: advance(), recede(), get() and == on the position.        *)

Constness == {"MUTABLE_ITERATOR", "CONSTANT_ITERATOR"}

Direction == {"FORWARD", "REVERSE"}

BidirectionalIterator_advance_unflipped(e, it, ub) ==
    [it EXCEPT !.reference_provider_ = advance(e, @)]

\* private advance(): the provider advances in a FORWARD iterator and recedes
\* in a REVERSE one.
BidirectionalIterator_advance(e, it, ub) ==
    IF it.DIRECTION = "FORWARD"
    THEN [it EXCEPT !.reference_provider_ = advance(e, @)]
    ELSE [it EXCEPT !.reference_provider_ = recede(e, @, ub)]

\* private recede()
BidirectionalIterator_recede(e, it, ub) ==
    IF it.DIRECTION = "FORWARD"
    THEN [it EXCEPT !.reference_provider_ = recede(e, @, ub)]
    ELSE [it EXCEPT !.reference_provider_ = advance(e, @)]

\* explicit BidirectionalIterator(const ReferenceProvider&): a REVERSE iterator
\* advances once.
BidirectionalIterator(e, reference_provider, constness, direction, ub) ==
    LET it == [reference_provider_ |-> reference_provider,
               CONSTNESS |-> constness, DIRECTION |-> direction]
    IN  IF direction = "REVERSE" THEN BidirectionalIterator_advance(e, it, ub) ELSE it

from_sibling_memberwise(e, sibling, ub) ==
    [sibling EXCEPT !.CONSTNESS = "CONSTANT_ITERATOR"]

\* BidirectionalIterator(const Sibling& other): delegates to the constructor
\* from other.reference_provider_. The const provider made from the mutable one
\* is at the same position.
from_sibling(e, sibling, ub) ==
    BidirectionalIterator(e, sibling.reference_provider_, "CONSTANT_ITERATOR",
                          sibling.DIRECTION, ub)

\* operator*()
operator_star(e, it) == PairProvider_get(e, it.reference_provider_)

\* operator++()
operator_increment(e, it, ub) == BidirectionalIterator_advance(e, it, ub)

operator_post_increment_returns_new(e, it, ub) ==
    LET next == BidirectionalIterator_advance(e, it, ub)
    IN  [this |-> next, tmp |-> next]

\* operator++(int): tmp = *this; advance(); return tmp;
operator_post_increment(e, it, ub) ==
    [this |-> BidirectionalIterator_advance(e, it, ub), tmp |-> it]

\* operator--()
operator_decrement(e, it, ub) == BidirectionalIterator_recede(e, it, ub)

\* operator--(int): tmp = *this; recede(); return tmp;
operator_post_decrement(e, it, ub) ==
    [this |-> BidirectionalIterator_recede(e, it, ub), tmp |-> it]

\* operator==(const BidirectionalIterator&), operator==(const Sibling&)
operator_equals(it, o) == it.reference_provider_ = o.reference_provider_

base_without_increment(e, it) ==
    BidirectionalIterator(e, it.reference_provider_, it.CONSTNESS, "FORWARD", BeforeBegin)

\* base(): ReverseBase out{reference_provider_}; ++out; return out;
\* (out is FORWARD: neither step recedes, so ub is not used)
base(e, it) ==
    LET out == BidirectionalIterator(e, it.reference_provider_, it.CONSTNESS, "FORWARD",
                                     BeforeBegin)
    IN  operator_increment(e, out, BeforeBegin)

\* The iterators a container hands out: begin() and end() from the provider at
\* the first element and past the last one, rbegin() and rend() REVERSE
\* iterators from the same two providers (neither is before-begin).
bi_begin(e, c) == BidirectionalIterator(e, begin(e), c, "FORWARD", BeforeBegin)

bi_end(e, c) == BidirectionalIterator(e, end(e), c, "FORWARD", BeforeBegin)

bi_rbegin(e, c) == BidirectionalIterator(e, end(e), c, "REVERSE", BeforeBegin)

bi_rend(e, c) == BidirectionalIterator(e, begin(e), c, "REVERSE", BeforeBegin)

\* No iterator made yet.
NoIterator ==
    [reference_provider_ |-> [current_index_ |-> ENUM_COUNT],
     CONSTNESS |-> "-", DIRECTION |-> "-"]

----------------------------------------------------------------------------
(* EnumMapBase: member functions *)

at_unchecked(e, key) == Returns(e, RefRet(ordinal(key)))

at(e, key) ==
    LET ord == ordinal(key)
    IN  IF test(array_set_unchecked_at(e, ord))
        THEN Aborts(e, out_of_range(key, size(e)))
        ELSE Returns(e, RefRet(ord))

touch_if_not_present_uncounted(e, ord) ==
    IF contains_at(e, ord) THEN e
    ELSE construct_at(array_set_assign(e, ord, TRUE), ord, DefaultV)

touch_if_not_present(e, ord) ==
    IF contains_at(e, ord) THEN e
    ELSE construct_at(array_set_assign(increment_size(e, 1), ord, TRUE), ord, DefaultV)

\* operator[](key)
operator_subscript(e, key) ==
    LET ord == ordinal(key)
        e1 == touch_if_not_present(e, ord)
    IN  Returns(e1, RefRet(ord))

\* *ref = v, for the reference returned by operator[] or at
assign_through_reference(e, r, v) ==
    Returns([e EXCEPT !.values_[r.index] = <<v>>,
                      !.log = Append(@, Event("assign", e, r.index))], NoRet)

RECURSIVE clear_loop(_, _)
clear_loop(e, i) ==
    IF i < ENUM_COUNT
    THEN clear_loop(IF array_set_unchecked_at(e, i) THEN reset_at(e, i) ELSE e, i + 1)
    ELSE e

clear_skips_first(e) == Returns(clear_loop(e, 1), NoRet)

clear(e) == Returns(clear_loop(e, 0), NoRet)

insert_without_bit(e, value) ==
    LET ord == ordinal(value[1])
    IN  IF array_set_unchecked_at(e, ord)
        THEN Returns(e, IteratorBool(create_iterator(e, ord), FALSE))
        ELSE LET e1 == construct_at(increment_size(e, 1), ord, value[2])
             IN  Returns(e1, IteratorBool(create_iterator(e1, ord), TRUE))

insert_overwrites(e, value) ==
    LET ord == ordinal(value[1])
        e1 == IF array_set_unchecked_at(e, ord) THEN e
              ELSE array_set_assign(increment_size(e, 1), ord, TRUE)
        e2 == construct_at(e1, ord, value[2])
    IN  Returns(e2, IteratorBool(create_iterator(e2, ord), ~array_set_unchecked_at(e, ord)))

\* insert(const value_type&) and insert(value_type&&); value is <<key, mapped>>
insert(e, value) ==
    LET ord == ordinal(value[1])
    IN  IF array_set_unchecked_at(e, ord)
        THEN Returns(e, IteratorBool(create_iterator(e, ord), FALSE))
        ELSE LET e1 == increment_size(e, 1)
                 e2 == array_set_assign(e1, ord, TRUE)
                 e3 == construct_at(e2, ord, value[2])
             IN  Returns(e3, IteratorBool(create_iterator(e3, ord), TRUE))

insert_or_assign_keeps_old(e, key, obj) ==
    LET ord == ordinal(key)
        is_insertion == ~array_set_unchecked_at(e, ord)
        e1 == IF is_insertion
              THEN values_assign(array_set_assign(increment_size(e, 1), ord, TRUE), ord, obj)
              ELSE e
    IN  Returns(e1, IteratorBool(create_iterator(e1, ord), is_insertion))

insert_or_assign(e, key, obj) ==
    LET ord == ordinal(key)
        is_insertion == ~array_set_unchecked_at(e, ord)
        e1 == IF is_insertion
              THEN array_set_assign(increment_size(e, 1), ord, TRUE)
              ELSE e
        e2 == values_assign(e1, ord, obj)
    IN  Returns(e2, IteratorBool(create_iterator(e2, ord), is_insertion))

\* V(args...): args is <<>> or <<v>>
construct_from(args) == IF args = <<>> THEN DefaultV ELSE args[1]

try_emplace_overwrites(e, key, args) ==
    LET ord == ordinal(key)
        e1 == IF array_set_unchecked_at(e, ord) THEN e
              ELSE array_set_assign(increment_size(e, 1), ord, TRUE)
        e2 == construct_at(e1, ord, construct_from(args))
    IN  Returns(e2, IteratorBool(create_iterator(e2, ord), ~array_set_unchecked_at(e, ord)))

try_emplace(e, key, args) ==
    LET ord == ordinal(key)
    IN  IF array_set_unchecked_at(e, ord)
        THEN Returns(e, IteratorBool(create_iterator(e, ord), FALSE))
        ELSE LET e1 == increment_size(e, 1)
                 e2 == array_set_assign(e1, ord, TRUE)
                 e3 == construct_at(e2, ord, construct_from(args))
             IN  Returns(e3, IteratorBool(create_iterator(e3, ord), TRUE))

\* emplace(args...): as_pair{args...}, then try_emplace(as_pair.first, as_pair.second)
emplace(e, args) ==
    LET as_pair == <<args[1], args[2]>>
    IN  try_emplace(e, as_pair[1], <<as_pair[2]>>)

\* erase(const_iterator pos) and erase(iterator pos)
erase_pos_returns_end(e, pos) ==
    LET i  == ordinal(PairProvider_get(e, pos)[1])
        e1 == reset_at(e, i)
    IN  Returns(e1, IteratorRet(end(e1)))

erase_pos(e, pos) ==
    LET i  == ordinal(PairProvider_get(e, pos)[1])
        e1 == reset_at(e, i)
    IN  Returns(e1, IteratorRet(create_iterator(e1, i)))

\* The predicates handed to erase_if: each is a function of the (key, value)
\* pair of an element.
Predicates ==
    {[kind |-> "value_is", operand |-> v] : v \in V}
        \cup {[kind |-> "value_is_not", operand |-> v] : v \in V}
        \cup {[kind |-> "key_is", operand |-> k] : k \in K}

holds(predicate, pair) ==
    CASE predicate.kind = "value_is"     -> pair[2] = predicate.operand
      [] predicate.kind = "value_is_not" -> pair[2] /= predicate.operand
      [] predicate.kind = "key_is"       -> pair[1] = predicate.operand

RECURSIVE erase_if_loop_skips_next(_, _, _, _)
erase_if_loop_skips_next(c, predicate, it, n) ==
    IF it = end(c) THEN Returns(c, SizeRet(n))
    ELSE IF holds(predicate, PairProvider_get(c, it))
    THEN LET r == erase_pos(c, it)
         IN  erase_if_loop_skips_next(r.e, predicate, advance(r.e, r.ret.first), n + 1)
    ELSE erase_if_loop_skips_next(c, predicate, advance(c, it), n)

erase_if_skips_next(c, predicate) == erase_if_loop_skips_next(c, predicate, begin(c), 0)

\* erase_if_detail::erase_if_impl: walk the elements from begin(); an element
\* whose pair satisfies the predicate is erased through erase(pos), which
\* returns the iterator to continue from; the others are stepped over. The
\* result is the number of elements erased.
RECURSIVE erase_if_loop(_, _, _, _)
erase_if_loop(c, predicate, it, n) ==
    IF it = end(c) THEN Returns(c, SizeRet(n))
    ELSE IF holds(predicate, PairProvider_get(c, it))
    THEN LET r == erase_pos(c, it)
         IN  erase_if_loop(r.e, predicate, r.ret.first, n + 1)
    ELSE erase_if_loop(c, predicate, advance(c, it), n)

erase_if_impl(c, predicate) == erase_if_loop(c, predicate, begin(c), 0)

erase_if(c, predicate) == erase_if_impl(c, predicate)

\* What a loop over an engine reports: the ordinals it visited, in order, and
\* whether it met end().
VisitedRet(visited, terminated) ==
    [kind |-> "visited", visited |-> visited, terminated |-> terminated]

\* for (it = c.begin(); it != c.end();)
\*     if (predicate(*it)) it = c.erase(it); else ++it;
\* A loop over an engine of N slots is followed for N + 1 rounds (fuel).
RECURSIVE erase_while_iterating(_, _, _, _, _)
erase_while_iterating(c, predicate, it, visited, fuel) ==
    IF it = end(c) THEN Returns(c, VisitedRet(visited, TRUE))
    ELSE IF fuel = 0 THEN Returns(c, VisitedRet(visited, FALSE))
    ELSE LET here == Append(visited, it.current_index_)
         IN  IF holds(predicate, PairProvider_get(c, it))
             THEN LET r == erase_pos(c, it)
                  IN  erase_while_iterating(r.e, predicate, r.ret.first, here, fuel - 1)
             ELSE erase_while_iterating(c, predicate, advance(c, it), here, fuel - 1)

RECURSIVE erase_loop(_, _, _)
erase_loop(e, i, to) ==
    IF i < to
    THEN erase_loop(IF contains_at(e, i) THEN reset_at(e, i) ELSE e, i + 1, to)
    ELSE e

erase_range_inclusive(e, first, last) ==
    LET from == IF first = end(e) THEN ENUM_COUNT
                ELSE ordinal(PairProvider_get(e, first)[1])
        to   == IF last = end(e) THEN ENUM_COUNT
                ELSE ordinal(PairProvider_get(e, last)[1])
        e1   == erase_loop(e, from, IF to < ENUM_COUNT THEN to + 1 ELSE to)
    IN  Returns(e1, IteratorRet(create_iterator(e1, to)))

\* erase(const_iterator first, const_iterator last)
erase_range(e, first, last) ==
    LET from == IF first = end(e) THEN ENUM_COUNT
                ELSE ordinal(PairProvider_get(e, first)[1])
        to   == IF last = end(e) THEN ENUM_COUNT
                ELSE ordinal(PairProvider_get(e, last)[1])
        e1   == erase_loop(e, from, to)
    IN  Returns(e1, IteratorRet(create_iterator(e1, to)))

erase_key_swaps_last(e, key) ==
    LET i    == ordinal(key)
        last == CHOOSE j \in Ordinals :
                    contains_at(e, j) /\ \A h \in Ordinals : contains_at(e, h) => h <= j
    IN  IF ~contains_at(e, i) THEN Returns(e, SizeRet(0))
        ELSE Returns(reset_at([e EXCEPT !.values_[i] = e.values_[last]], last), SizeRet(1))

erase_key_keeps_size(e, key) ==
    LET i == ordinal(key)
    IN  IF ~contains_at(e, i) THEN Returns(e, SizeRet(0))
        ELSE Returns(array_set_assign(destroy_at(e, i), i, FALSE), SizeRet(1))

\* erase(const K& key)
erase_key(e, key) ==
    LET i == ordinal(key)
    IN  IF ~contains_at(e, i) THEN Returns(e, SizeRet(0))
        ELSE Returns(reset_at(e, i), SizeRet(1))

find_unchecked(e, key) == create_iterator(e, ordinal(key))

find(e, key) ==
    LET ord == ordinal(key)
    IN  IF ~contains_at(e, ord) THEN end(e) ELSE create_iterator(e, ord)

contains(e, key) == contains_at(e, ordinal(key))

count(e, key) == IF contains(e, key) THEN 1 ELSE 0

----------------------------------------------------------------------------
(* Factories *)

RECURSIVE create_with_keys_loop_unassigned(_, _, _, _)
create_with_keys_loop_unassigned(output, sp, value, j) ==
    IF j <= Len(sp)
    THEN create_with_keys_loop_unassigned(operator_subscript(output, sp[j]).e, sp, value, j + 1)
    ELSE output

create_with_keys_unassigned(sp, value) ==
    Returns(create_with_keys_loop_unassigned(EnumMapBase, sp, value, 1), EngineRet)

\* for (auto&& k : sp) output[k] = value;
RECURSIVE create_with_keys_loop(_, _, _, _)
create_with_keys_loop(output, sp, value, j) ==
    IF j <= Len(sp)
    THEN LET r == operator_subscript(output, sp[j])
         IN  create_with_keys_loop(assign_through_reference(r.e, r.ret, value).e,
                                   sp, value, j + 1)
    ELSE output

create_with_keys(sp, value) ==
    Returns(create_with_keys_loop(EnumMapBase, sp, value, 1), EngineRet)

RECURSIVE create_loop_inverted(_, _, _)
create_loop_inverted(output, list, j) ==
    IF j <= Len(list)
    THEN LET r == insert(output, list[j])
         IN  IF r.ret.second
             THEN Aborts(output, duplicate_enum_entries)
             ELSE create_loop_inverted(r.e, list, j + 1)
    ELSE IF test(size(output) = ENUM_COUNT)
         THEN Aborts(output, missing_enum_entries)
         ELSE Returns(output, EngineRet)

create_with_all_entries_inverted(list) == create_loop_inverted(EnumMapBase, list, 1)

RECURSIVE create_loop_unchecked(_, _, _)
create_loop_unchecked(output, list, j) ==
    IF j <= Len(list)
    THEN create_loop_unchecked(insert(output, list[j]).e, list, j + 1)
    ELSE IF test(size(output) = ENUM_COUNT)
         THEN Aborts(output, missing_enum_entries)
         ELSE Returns(output, EngineRet)

create_with_all_entries_no_duplicate_check(list) ==
    create_loop_unchecked(EnumMapBase, list, 1)

RECURSIVE create_loop_no_final_check(_, _, _)
create_loop_no_final_check(output, list, j) ==
    IF j <= Len(list)
    THEN LET r == insert(output, list[j])
         IN  IF test(r.ret.second)
             THEN Aborts(r.e, duplicate_enum_entries)
             ELSE create_loop_no_final_check(r.e, list, j + 1)
    ELSE Returns(output, EngineRet)

create_with_all_entries_no_missing_check(list) ==
    create_loop_no_final_check(EnumMapBase, list, 1)

\* The loop over the pairs, from pair j on, and the check that follows it.
RECURSIVE create_loop(_, _, _)
create_loop(output, list, j) ==
    IF j <= Len(list)
    THEN LET r == insert(output, list[j])
         IN  IF test(r.ret.second)
             THEN Aborts(r.e, duplicate_enum_entries)
             ELSE create_loop(r.e, list, j + 1)
    ELSE IF test(size(output) = ENUM_COUNT)
         THEN Aborts(output, missing_enum_entries)
         ELSE Returns(output, EngineRet)

create_with_all_entries(list) == create_loop(EnumMapBase, list, 1)

----------------------------------------------------------------------------
(* EnumMap: copy, move and destruction for a non-trivial mapped type.      *)
(* A special member function yields both engines it touches: [this, other] *)

\* this->array_set() = other.array_set()
array_set_copy(e, o) == [e EXCEPT !.array_set_ = o.array_set_]

copy_loop_bitwise(e, o, i) == [e EXCEPT !.values_ = o.values_]

\* for i < ENUM_COUNT: if contains_at(i) construct_at(&values_unchecked_at(i),
\*                                                   other.values_unchecked_at(i))
RECURSIVE copy_loop(_, _, _)
copy_loop(e, o, i) ==
    IF i < ENUM_COUNT
    THEN copy_loop(IF contains_at(e, i)
                   THEN construct_at(e, i, get(values_unchecked_at(o, i)))
                   ELSE e, o, i + 1)
    ELSE e

\* The same loop with std::move(other.values_unchecked_at(i)): the new element
\* takes the source element's value, and the source element stays live holding
\* the moved-from value moved[i], which the mapped type chooses.
RECURSIVE move_loop(_, _, _, _)
move_loop(e, o, i, moved) ==
    IF i < ENUM_COUNT
    THEN IF contains_at(e, i)
         THEN move_loop(construct_at(e, i, get(values_unchecked_at(o, i))),
                        [o EXCEPT !.values_[i] = <<moved[i]>>], i + 1, moved)
         ELSE move_loop(e, o, i + 1, moved)
    ELSE [this |-> e, other |-> o]

copy_constructor_bitwise(o) ==
    [this  |-> copy_loop_bitwise(set_size(array_set_copy(EnumMapBase, o), size(o)), o, 0),
     other |-> o]

\* EnumMap(const EnumMap& other)
copy_constructor(o) ==
    [this  |-> copy_loop(set_size(array_set_copy(EnumMapBase, o), size(o)), o, 0),
     other |-> o]

move_constructor_keeps_source(o, moved) ==
    move_loop(set_size(array_set_copy(EnumMapBase, o), size(o)), o, 0, moved)

\* EnumMap(EnumMap&& other): as the copy, then other.clear()
move_constructor(o, moved) ==
    LET m == move_loop(set_size(array_set_copy(EnumMapBase, o), size(o)), o, 0, moved)
    IN  [this |-> m.this, other |-> clear(m.other).e]

copy_assign_without_clear(e, o, same) ==
    IF same THEN [this |-> e, other |-> e]
    ELSE [this  |-> copy_loop(set_size(array_set_copy(e, o), size(o)), o, 0),
          other |-> o]

\* operator=(const EnumMap& other); same: this == &other
copy_assign(e, o, same) ==
    IF same THEN [this |-> e, other |-> e]
    ELSE LET e1 == clear(e).e
         IN  [this  |-> copy_loop(set_size(array_set_copy(e1, o), size(o)), o, 0),
              other |-> o]

move_assign_clears_source(e, o, same, moved) ==
    IF same THEN [this |-> e, other |-> e]
    ELSE LET m == move_loop(set_size(array_set_copy(clear(e).e, o), size(o)), o, 0, moved)
         IN  [this |-> m.this, other |-> clear(m.other).e]

\* operator=(EnumMap&& other): as the copy assignment with std::move; the
\* source is not cleared.
move_assign(e, o, same, moved) ==
    IF same THEN [this |-> e, other |-> e]
    ELSE LET e1 == clear(e).e
         IN  move_loop(set_size(array_set_copy(e1, o), size(o)), o, 0, moved)

\* ~EnumMap()
destructor(e) == clear(e).e

equals_whole_storage(e, o) == e.array_set_ = o.array_set_ /\ e.values_ = o.values_

\* operator==(other)
RECURSIVE equals_loop(_, _, _)
equals_loop(e, o, i) ==
    IF i < ENUM_COUNT
    THEN IF array_set_unchecked_at(e, i) # array_set_unchecked_at(o, i) THEN FALSE
         ELSE IF ~array_set_unchecked_at(e, i) THEN equals_loop(e, o, i + 1)
         ELSE IF unchecked_at(e, i) # unchecked_at(o, i) THEN FALSE
         ELSE equals_loop(e, o, i + 1)
    ELSE TRUE

equals(e, o) == equals_loop(e, o, 0)

----------------------------------------------------------------------------
(* Insertion of several pairs, the constructors from pairs, EnumMapBuilder *)

\* insert(first, last): this->insert(*first) for each element in order
RECURSIVE insert_loop(_, _, _)
insert_loop(e, list, j) ==
    IF j <= Len(list) THEN insert_loop(insert(e, list[j]).e, list, j + 1) ELSE e

insert_range(e, list) == Returns(insert_loop(e, list, 1), NoRet)

\* insert(std::initializer_list<value_type> list)
insert_list(e, list) == insert_range(e, list)

\* EnumMapBase(InputIt first, InputIt last)
range_constructor(list) == Returns(insert_range(EnumMapBase, list).e, EngineRet)

\* EnumMapBase(std::initializer_list<value_type> list)
list_constructor(list) == Returns(insert_list(EnumMapBase, list).e, EngineRet)

\* An EnumMapBuilder is its member enum_map_.
EnumMapBuilder == EnumMapBase

builder_insert_assigns(b, value) == insert_or_assign(b, value[1], value[2]).e

\* EnumMapBuilder::insert(const value_type&) and insert(value_type&&), on an
\* lvalue or an rvalue builder
builder_insert(b, value) == insert(b, value).e

\* EnumMapBuilder::insert(std::initializer_list<value_type>)
builder_insert_list(b, list) == insert_list(b, list).e

\* EnumMapBuilder::insert(InputIt first, InputIt last)
builder_insert_range(b, list) == insert_range(b, list).e

\* build() const&: return enum_map_, a copy; [this, other] = [engine, builder]
build_lvalue(b) == copy_constructor(b)

\* build() &&: return std::move(enum_map_)
build_rvalue(b, moved) == move_constructor(b, moved)

\* The chained inserts of list into builder b from pair j on: plan[j] is
\* "single" for insert(pair), and a run of pairs with plan "list" or "range"
\* is one insert of that run as an initializer list or as a range.
RECURSIVE builder_chain(_, _, _, _)
builder_chain(b, list, plan, j) ==
    IF j > Len(list) THEN b
    ELSE IF plan[j] = "single"
         THEN builder_chain(builder_insert(b, list[j]), list, plan, j + 1)
         ELSE LET k == CHOOSE n \in j .. Len(list) :
                           /\ \A h \in j .. n : plan[h] = plan[j]
                           /\ n < Len(list) => plan[n + 1] # plan[j]
                  run == SubSeq(list, j, k)
              IN  builder_chain(IF plan[j] = "list" THEN builder_insert_list(b, run)
                                ELSE builder_insert_range(b, run),
                                list, plan, k + 1)

----------------------------------------------------------------------------
(* State machine *)

\* Progress along the scenario m[RED] = 1; m[YELLOW] = 2 on a fresh engine;
\* -1 once the calls made are not that scenario.
ExampleNext(name, key, arg) ==
    CASE example = 0 /\ name = "operator[]" /\ key = "RED"    -> 1
      [] example = 1 /\ name = "assign" /\ arg = <<1>>        -> 2
      [] example = 2 /\ name = "operator[]" /\ key = "YELLOW" -> 3
      [] example = 3 /\ name = "assign" /\ arg = <<2>>        -> 4
      [] OTHER -> -1

\* The events of a call's log, each with the engine it happened in.
Tag(x, log) ==
    [j \in 1 .. Len(log) |->
        [engine |-> x, op |-> log[j].op, index |-> log[j].index, live |-> log[j].live]]

\* Constructions minus destructions among the events.
Net(evs) ==
    Cardinality({j \in 1 .. Len(evs) : evs[j].op = "construct"})
      - Cardinality({j \in 1 .. Len(evs) : evs[j].op = "destroy"})

\* One call on engine `on`: afterwards engine a is ea and engine b is eb.
Apply(name, on, key, arg, ea, eb, r) ==
    /\ ~aborted
    /\ pre' = Self
    /\ pre_other' = other
    /\ call' = [name |-> name, on |-> on, key |-> key, arg |-> arg]
    /\ values_' = ea.values_
    /\ array_set_' = ea.array_set_
    /\ size_' = ea.size_
    /\ other' = [eb EXCEPT !.log = <<>>]
    /\ events' = Tag("a", ea.log) \o Tag("b", eb.log)
    /\ balance' = balance + Net(Tag("a", ea.log) \o Tag("b", eb.log))
    /\ ret' = r.ret
    /\ policy' = r.policy
    /\ aborted' = r.aborted
    /\ example' = ExampleNext(name, key, arg)
    /\ UNCHANGED <<pairs, iter, pre_iter>>

\* One call on engine a: the engine, the result and the policy calls are
\* those of r.
Step(name, key, arg, r) ==
    /\ alive.a = "alive"
    /\ Apply(name, "a", key, arg, r.e, other, r)
    /\ UNCHANGED alive

\* One call on engine b.
StepOther(name, key, arg, r) ==
    /\ alive.b = "alive"
    /\ Apply(name, "b", key, arg, Self, r.e, r)
    /\ UNCHANGED alive

InitCall == [name |-> "init", on |-> "a", key |-> "-", arg |-> <<>>]

InitEngine ==
    /\ values_ = EnumMapBase.values_
    /\ array_set_ = EnumMapBase.array_set_
    /\ size_ = EnumMapBase.size_
    /\ pre = EnumMapBase
    /\ call = InitCall
    /\ ret = NoRet
    /\ policy = <<>>
    /\ aborted = FALSE
    /\ example = 0
    /\ other = EnumMapBase
    /\ pre_other = EnumMapBase
    /\ alive = [a |-> "alive", b |-> "unborn"]
    /\ events = <<>>
    /\ balance = 0
    /\ iter = NoIterator
    /\ pre_iter = NoIterator

Init == InitEngine /\ pairs = <<>>

\* Iterators a caller can hold that denote an element: one per present slot.
ValidIterators == {create_iterator(Self, i) : i \in {j \in Ordinals : array_set_[j]}}

At == \E key \in K : Step("at", key, <<>>, at(Self, key))

OperatorSubscript == \E key \in K : Step("operator[]", key, <<>>, operator_subscript(Self, key))

AssignThroughReference ==
    /\ ret.kind = "reference"
    /\ \E v \in V :
          Step("assign", ENUM_VALUES[ret.index], <<v>>, assign_through_reference(Self, ret, v))

Clear == Step("clear", "-", <<>>, clear(Self))

Insert == \E key \in K, v \in V : Step("insert", key, <<v>>, insert(Self, <<key, v>>))

InsertOrAssign ==
    \E key \in K, v \in V : Step("insert_or_assign", key, <<v>>, insert_or_assign(Self, key, v))

TryEmplace ==
    \E key \in K, args \in {<<>>} \cup {<<v>> : v \in V} :
        Step("try_emplace", key, args, try_emplace(Self, key, args))

Emplace == \E key \in K, v \in V : Step("emplace", key, <<v>>, emplace(Self, <<key, v>>))

\* pos denotes an element (the asserts of erase(pos)).
ErasePos ==
    \E pos \in ValidIterators :
        Step("erase_pos", "-", <<pos.current_index_>>, erase_pos(Self, pos))

\* first and last denote elements or are end(), first not after last.
EraseRange ==
    \E first \in ValidIterators \cup {end(Self)}, last \in ValidIterators \cup {end(Self)} :
        /\ first.current_index_ <= last.current_index_
        /\ Step("erase_range", "-", <<first.current_index_, last.current_index_>>,
                erase_range(Self, first, last))

EraseKey == \E key \in K : Step("erase", key, <<>>, erase_key(Self, key))

EraseIf ==
    \E predicate \in Predicates :
        Step("erase_if", "-", <<predicate>>, erase_if(Self, predicate))

EraseWhileIterating ==
    \E predicate \in Predicates :
        Step("erase_while_iterating", "-", <<predicate>>,
             erase_while_iterating(Self, predicate, begin(Self), <<>>, ENUM_COUNT + 1))

\* find, contains and count are const member functions.
Lookup ==
    \E key \in K :
        \/ Step("find", key, <<>>, Returns(Self, IteratorRet(find(Self, key))))
        \/ Step("contains", key, <<>>, Returns(Self, BoolRet(contains(Self, key))))
        \/ Step("count", key, <<>>, Returns(Self, SizeRet(count(Self, key))))

Next ==
    \/ At
    \/ OperatorSubscript
    \/ AssignThroughReference
    \/ Clear
    \/ Insert
    \/ InsertOrAssign
    \/ TryEmplace
    \/ Emplace
    \/ ErasePos
    \/ EraseRange
    \/ EraseKey
    \/ EraseIf
    \/ EraseWhileIterating
    \/ Lookup

Spec == Init /\ [][Next]_vars

----------------------------------------------------------------------------
(* The factory create_with_all_entries, on every short list of pairs *)

PairLists ==
    UNION {[1 .. n -> K \X V] : n \in 0 .. MaxPairs}

InitCreate == InitEngine /\ pairs \in PairLists

\* The engine variables hold the factory's local output: the engine returned
\* when ret is EngineRet, the engine as built so far when the policy aborted.
CreateWithAllEntries ==
    /\ call = InitCall
    /\ Step("create_with_all_entries", "-", <<>>, create_with_all_entries(pairs))

\* The container of keys handed to create_with_keys: the keys of pairs, in order.
KeysOf(list) == [j \in 1 .. Len(list) |-> list[j][1]]

CreateWithKeys ==
    /\ call = InitCall
    /\ \E value \in V :
          Step("create_with_keys", "-", <<value>>, create_with_keys(KeysOf(pairs), value))

NextCreate == CreateWithAllEntries \/ CreateWithKeys

SpecCreate == InitCreate /\ [][NextCreate]_vars

----------------------------------------------------------------------------
(* Two engines a and b of a non-trivial mapped type: a is default          *)
(* constructed, b is default, copy or move constructed from a; both are    *)
(* mutated, assigned to one another and destroyed.                         *)

\* The mapped values the two-engine calls pass.
CopyValues == {DefaultV, MaxValue}

\* The moved-from values a mapped type can leave behind: it leaves the value
\* as it was or resets it, the same way in every slot.
MovedFrom == {[i \in Ordinals |-> v] : v \in CopyValues}

Engines == {"a", "b"}

Engine(x) == IF x = "a" THEN Self ELSE other

\* A call on engine x.
StepOn(x, name, key, arg, r) ==
    IF x = "a" THEN Step(name, key, arg, r) ELSE StepOther(name, key, arg, r)

\* A special member function called on engine x with the other engine as its
\* argument; m is its result [this, other].
Special(x, name, m) ==
    IF x = "a"
    THEN Apply(name, "a", "-", <<>>, m.this, m.other, Returns(m.this, NoRet))
    ELSE Apply(name, "b", "-", <<>>, m.other, m.this, Returns(m.this, NoRet))

Other(x) == IF x = "a" THEN "b" ELSE "a"

BothAlive == alive.a = "alive" /\ alive.b = "alive"

CopyInsert ==
    \E x \in Engines, key \in K, v \in CopyValues :
        StepOn(x, "insert", key, <<v>>, insert(Engine(x), <<key, v>>))

CopyInsertOrAssign ==
    \E x \in Engines, key \in K, v \in CopyValues :
        StepOn(x, "insert_or_assign", key, <<v>>, insert_or_assign(Engine(x), key, v))

CopyEraseKey ==
    \E x \in Engines, key \in K : StepOn(x, "erase", key, <<>>, erase_key(Engine(x), key))

CopyClear == \E x \in Engines : StepOn(x, "clear", "-", <<>>, clear(Engine(x)))

\* EnumMap b;
DefaultConstruct ==
    /\ alive = [a |-> "alive", b |-> "unborn"]
    /\ Special("b", "default_constructor", [this |-> EnumMapBase, other |-> Self])
    /\ alive' = [alive EXCEPT !.b = "alive"]

\* EnumMap b(a);
CopyConstruct ==
    /\ alive = [a |-> "alive", b |-> "unborn"]
    /\ Special("b", "copy_constructor", copy_constructor(Self))
    /\ alive' = [alive EXCEPT !.b = "alive"]

\* EnumMap b(std::move(a));
MoveConstruct ==
    /\ alive = [a |-> "alive", b |-> "unborn"]
    /\ \E moved \in MovedFrom : Special("b", "move_constructor", move_constructor(Self, moved))
    /\ alive' = [alive EXCEPT !.b = "alive"]

\* x = y;
CopyAssign ==
    /\ BothAlive
    /\ \E x \in Engines :
          Special(x, "copy_assign", copy_assign(Engine(x), Engine(Other(x)), FALSE))
    /\ UNCHANGED alive

\* x = x;
CopyAssignSelf ==
    \E x \in Engines :
        StepOn(x, "copy_assign_self", "-", <<>>,
               Returns(copy_assign(Engine(x), Engine(x), TRUE).this, NoRet))

\* x = std::move(y);
MoveAssign ==
    /\ BothAlive
    /\ \E x \in Engines, moved \in MovedFrom :
          Special(x, "move_assign", move_assign(Engine(x), Engine(Other(x)), FALSE, moved))
    /\ UNCHANGED alive

\* x = std::move(x);
MoveAssignSelf ==
    \E x \in Engines, moved \in MovedFrom :
        StepOn(x, "move_assign_self", "-", <<>>,
               Returns(move_assign(Engine(x), Engine(x), TRUE, moved).this, NoRet))

\* The engine's lifetime ends.
Destructor ==
    \E x \in Engines :
        /\ alive[x] = "alive"
        /\ Special(x, "destructor", [this |-> destructor(Engine(x)), other |-> Engine(Other(x))])
        /\ alive' = [alive EXCEPT ![x] = "destroyed"]

NextCopy ==
    \/ CopyInsert
    \/ CopyInsertOrAssign
    \/ CopyEraseKey
    \/ CopyClear
    \/ DefaultConstruct
    \/ CopyConstruct
    \/ MoveConstruct
    \/ CopyAssign
    \/ CopyAssignSelf
    \/ MoveAssign
    \/ MoveAssignSelf
    \/ Destructor

SpecCopy == Init /\ [][NextCopy]_vars

----------------------------------------------------------------------------
(* BidirectionalIterator over the elements of an engine: the engine is     *)
(* filled, then iterators are made, moved, converted and based. No element *)
(* is added or removed while an iterator is held.                          *)

\* One operation on the held iterator: it becomes new_iter, r is returned.
IterStep(name, new_iter, r) ==
    /\ ~aborted
    /\ pre' = Self
    /\ pre_other' = other
    /\ pre_iter' = iter
    /\ call' = [name |-> name, on |-> "a", key |-> "-", arg |-> <<>>]
    /\ iter' = new_iter
    /\ ret' = r
    /\ events' = <<>>
    /\ example' = ExampleNext(name, "-", <<>>)
    /\ UNCHANGED <<values_, array_set_, size_, other, alive, balance, policy, aborted, pairs>>

IterInsertOrAssign == iter = NoIterator /\ InsertOrAssign

MakeBegin == \E c \in Constness : IterStep("begin", bi_begin(Self, c), NoRet)

MakeEnd == \E c \in Constness : IterStep("end", bi_end(Self, c), NoRet)

MakeRBegin == \E c \in Constness : IterStep("rbegin", bi_rbegin(Self, c), NoRet)

MakeREnd == \E c \in Constness : IterStep("rend", bi_rend(Self, c), NoRet)

\* The iterator can be incremented: it is not at the end of its direction.
Incrementable(it) ==
    /\ it # NoIterator
    /\ it.DIRECTION = "FORWARD" => it.reference_provider_ # end(Self)
    /\ it.DIRECTION = "REVERSE" => it.reference_provider_.current_index_ # BeforeBegin

\* The iterator can be decremented: it is not at the beginning of its direction.
Decrementable(it) ==
    /\ it # NoIterator
    /\ it.DIRECTION = "FORWARD" => it.reference_provider_ # begin(Self)
    /\ it.DIRECTION = "REVERSE" => it.reference_provider_ # rbegin(Self)

Increment ==
    /\ Incrementable(iter)
    /\ \E ub \in Positions : IterStep("operator++", operator_increment(Self, iter, ub), NoRet)

Decrement ==
    /\ Decrementable(iter)
    /\ \E ub \in Positions : IterStep("operator--", operator_decrement(Self, iter, ub), NoRet)

PostIncrement ==
    /\ Incrementable(iter)
    /\ \E ub \in Positions :
          LET r == operator_post_increment(Self, iter, ub)
          IN  IterStep("operator++(int)", r.this, IteratorRet(r.tmp))

PostDecrement ==
    /\ Decrementable(iter)
    /\ \E ub \in Positions :
          LET r == operator_post_decrement(Self, iter, ub)
          IN  IterStep("operator--(int)", r.this, IteratorRet(r.tmp))

\* const sibling c = it;
ToConst ==
    /\ iter.CONSTNESS = "MUTABLE_ITERATOR"
    /\ \E ub \in Positions :
          IterStep("to_const", iter, IteratorRet(from_sibling(Self, iter, ub)))

Base ==
    /\ iter.DIRECTION = "REVERSE"
    /\ IterStep("base", iter, IteratorRet(base(Self, iter)))

NextIter ==
    \/ IterInsertOrAssign
    \/ MakeBegin
    \/ MakeEnd
    \/ MakeRBegin
    \/ MakeREnd
    \/ Increment
    \/ Decrement
    \/ PostIncrement
    \/ PostDecrement
    \/ ToConst
    \/ Base

SpecIter == Init /\ [][NextIter]_vars

----------------------------------------------------------------------------
(* Engines made from a list of pairs: by an EnumMapBuilder (engine b is    *)
(* the builder's enum_map_, engine a the engine built) and by the          *)
(* constructors from a range and from an initializer list.                 *)

BuilderLists == UNION {[1 .. n -> K \X V] : n \in 0 .. ENUM_COUNT}

Plans(list) == [1 .. Len(list) -> {"single", "list", "range"}]

InitBuilder == InitEngine /\ pairs \in BuilderLists

\* EnumMapBuilder b; b.insert(...)...; EnumMap a = b.build();
BuildLvalue ==
    /\ call = InitCall
    /\ \E plan \in Plans(pairs) :
          LET m == build_lvalue(builder_chain(EnumMapBuilder, pairs, plan, 1))
          IN  Apply("build_lvalue", "b", "-", <<>>, m.this, m.other, Returns(m.this, EngineRet))
    /\ alive' = [alive EXCEPT !.b = "alive"]

\* EnumMap a = EnumMapBuilder{}.insert(...)....build();
BuildRvalue ==
    /\ call = InitCall
    /\ \E plan \in Plans(pairs), moved \in MovedFrom :
          LET m == build_rvalue(builder_chain(EnumMapBuilder, pairs, plan, 1), moved)
          IN  Apply("build_rvalue", "b", "-", <<>>, m.this, m.other, Returns(m.this, EngineRet))
    /\ alive' = [alive EXCEPT !.b = "alive"]

\* b.insert(pair) after a = b.build()
InsertAfterBuild ==
    /\ call.name = "build_lvalue"
    /\ \E key \in K, v \in V :
          StepOther("builder_insert", key, <<v>>,
                    Returns(builder_insert(other, <<key, v>>), NoRet))

RangeConstructor ==
    /\ call = InitCall
    /\ Step("range_constructor", "-", <<>>, range_constructor(pairs))

ListConstructor ==
    /\ call = InitCall
    /\ Step("list_constructor", "-", <<>>, list_constructor(pairs))

NextBuilder ==
    \/ BuildLvalue
    \/ BuildRvalue
    \/ InsertAfterBuild
    \/ RangeConstructor
    \/ ListConstructor

SpecBuilder == InitBuilder /\ [][NextBuilder]_vars

----------------------------------------------------------------------------
(* operator== on every pair of engines. Here the storage of a slot that is *)
(* not present holds what an earlier element left behind, or nothing.      *)

EngineStates ==
    LET Leftover == {<<>>} \cup {<<v>> : v \in CopyValues}
        Storage  == {<<>>} \cup {<<v>> : v \in V}
    IN  {[values_ |-> vals, array_set_ |-> bits,
          size_ |-> Cardinality({i \in Ordinals : bits[i]}), log |-> <<>>] :
            <<bits, vals>> \in
                {bv \in [Ordinals -> BOOLEAN] \X [Ordinals -> Storage] :
                    \A i \in Ordinals :
                        IF bv[1][i] THEN bv[2][i] # <<>> ELSE bv[2][i] \in Leftover}}

InitEquals ==
    /\ \E a \in EngineStates :
          /\ values_ = a.values_
          /\ array_set_ = a.array_set_
          /\ size_ = a.size_
          /\ pre = a
    /\ other \in EngineStates
    /\ pre_other = other
    /\ alive = [a |-> "alive", b |-> "alive"]
    /\ call = InitCall
    /\ ret = NoRet
    /\ policy = <<>>
    /\ aborted = FALSE
    /\ example = 0
    /\ events = <<>>
    /\ balance = 0
    /\ iter = NoIterator
    /\ pre_iter = NoIterator
    /\ pairs = <<>>

\* a == b
Equality ==
    /\ call = InitCall
    /\ Apply("operator==", "a", "-", <<>>, Self, other, Returns(Self, BoolRet(equals(Self, other))))
    /\ UNCHANGED alive

SpecEquals == InitEquals /\ [][Equality]_vars

----------------------------------------------------------------------------
(* Properties *)

Present(e) == {i \in Ordinals : e.array_set_[i]}

\* The ordinal the last call was about.
ord_of_call == ordinal(call.key)

\* The pairs a full forward traversal yields: begin(), then ++ until end().
RECURSIVE traverse(_, _, _)
traverse(e, it, acc) ==
    IF it = end(e) THEN acc
    ELSE traverse(e, advance(e, it), Append(acc, PairProvider_get(e, it)))

ForwardTraversal(e) == traverse(e, begin(e), <<>>)

\* C1: in every reachable state the cached size equals the number of presence
\* bits that are true, so it lies in 0 .. N and never underflows.
C1_SizeIsPopcount ==
    /\ size(Self) = Cardinality(Present(Self))
    /\ size(Self) \in 0 .. ENUM_COUNT

C1_Witness ==
    /\ call.name = "erase_range"
    /\ pre.size_ = ENUM_COUNT
    /\ size_ = 1

\* C2: a full forward traversal takes exactly size() increments and yields,
\* in strictly increasing ordinal order, exactly the present ordinals, each
\* with its key and the value of its slot; on an empty engine begin() = end().
C2_ForwardTraversal ==
    LET t == ForwardTraversal(Self)
    IN  /\ Len(t) = size(Self)
        /\ {ordinal(t[j][1]) : j \in 1 .. Len(t)} = Present(Self)
        /\ \A j \in 1 .. Len(t) :
              /\ t[j] = <<ENUM_VALUES[ordinal(t[j][1])], values_[ordinal(t[j][1])][1]>>
              /\ j > 1 => ordinal(t[j - 1][1]) < ordinal(t[j][1])
        /\ empty(Self) => begin(Self) = end(Self)

C2_Witness ==
    /\ Present(Self) = {0, 2}
    /\ values_[0] = <<2>>
    /\ values_[2] = <<1>>
    /\ ForwardTraversal(Self) = << <<"RED", 2>>, <<"BLUE", 1>> >>

\* C3 as stated: after insert({k, v}), find(k) is not end() and dereferences
\* to (k, v), whatever the engine held before.
C3_InsertThenFindYieldsInserted ==
    call.name = "insert" =>
        /\ find(Self, call.key) # end(Self)
        /\ PairProvider_get(Self, find(Self, call.key)) = <<call.key, call.arg[1]>>

\* C3 amended: after insert({k, v}), find(k) is not end(); it dereferences to
\* (k, v) when k was absent before the insert and to (k, the value already
\* stored at k) when k was present.
C3_InsertThenFind ==
    call.name = "insert" =>
        /\ find(Self, call.key) # end(Self)
        /\ PairProvider_get(Self, find(Self, call.key)) =
              <<call.key,
                IF pre.array_set_[ord_of_call]
                THEN pre.values_[ord_of_call][1]
                ELSE call.arg[1]>>

C3_Witness ==
    /\ call.name = "insert"
    /\ ~pre.array_set_[ord_of_call]
    /\ call.arg = <<2>>
    /\ PairProvider_get(Self, find(Self, call.key)) = <<call.key, 2>>

\* C4: insert of a present key changes nothing and returns (iterator at the
\* key's slot, false); insert of an absent key sets the presence bit, stores
\* the value, adds exactly 1 to the size and returns (iterator at the new
\* slot, true).
C4_InsertFrame ==
    call.name = "insert" =>
        IF pre.array_set_[ord_of_call]
        THEN /\ ret = IteratorBool([current_index_ |-> ord_of_call], FALSE)
             /\ Self = pre
        ELSE /\ ret = IteratorBool([current_index_ |-> ord_of_call], TRUE)
             /\ array_set_[ord_of_call]
             /\ values_[ord_of_call] = call.arg
             /\ size_ = pre.size_ + 1

C4_Witness ==
    /\ call.name = "insert"
    /\ pre.array_set_[ord_of_call]
    /\ pre.values_[ord_of_call] # call.arg
    /\ ret.second = FALSE

\* C5: erase(k) returns 0 or 1; on a present key it returns 1, clears the
\* presence bit, destroys the element and takes 1 off the size, after which
\* find(k) = end(), contains(k) is false and a repeated erase(k) returns 0 and
\* changes nothing; on an absent key it returns 0 and changes nothing.
C5_EraseKey ==
    call.name = "erase" =>
        /\ ret.kind = "size_type"
        /\ ret.n \in {0, 1}
        /\ IF pre.array_set_[ord_of_call]
           THEN /\ ret.n = 1
                /\ ~array_set_[ord_of_call]
                /\ values_[ord_of_call] = <<>>
                /\ size_ = pre.size_ - 1
                /\ find(Self, call.key) = end(Self)
                /\ ~contains(Self, call.key)
                /\ erase_key(Self, call.key) = Returns(Self, SizeRet(0))
           ELSE /\ ret.n = 0
                /\ Self = pre

C5_Witness ==
    /\ call.name = "erase"
    /\ ret.n = 1
    /\ pre.size_ = 2
    /\ size_ = 1

\* C6: at(k) changes no presence bit, element or size; on an absent key it
\* calls out_of_range(k, size()) and does not return; on a present key it
\* returns the live element of the key's slot without calling the policy.
C6_At ==
    call.name = "at" =>
        /\ Self = pre
        /\ IF pre.array_set_[ord_of_call]
           THEN /\ policy = <<>>
                /\ ~aborted
                /\ ret = RefRet(ord_of_call)
                /\ values_[ret.index] # <<>>
           ELSE /\ policy = <<out_of_range(call.key, pre.size_)>>
                /\ aborted
                /\ ret = NoRet

C6_Witness ==
    /\ call.name = "at"
    /\ aborted
    /\ policy = <<out_of_range("YELLOW", 2)>>

\* C7: operator[](k) never calls the checking policy; on an absent key it
\* default-constructs the element, sets the presence bit and adds 1 to the
\* size; on a present key it changes nothing; it returns the element of the
\* key's slot. After m[RED] = 1; m[YELLOW] = 2 on a fresh engine: size() = 2,
\* contains(BLUE) is false and at(YELLOW) is 2.
C7_OperatorSubscript ==
    /\ call.name = "operator[]" =>
          /\ policy = <<>>
          /\ ~aborted
          /\ ret = RefRet(ord_of_call)
          /\ IF pre.array_set_[ord_of_call]
             THEN Self = pre
             ELSE /\ array_set_[ord_of_call]
                  /\ values_[ord_of_call] = <<DefaultV>>
                  /\ size_ = pre.size_ + 1
    /\ example = 4 =>
          /\ size(Self) = 2
          /\ ~contains(Self, "BLUE")
          /\ LET r == at(Self, "YELLOW")
             IN  /\ r.ret.kind = "reference"
                 /\ unchecked_at(r.e, r.ret.index) = 2

C7_Witness ==
    /\ example = 4
    /\ values_ = [i \in Ordinals |-> IF i = 0 THEN <<1>> ELSE IF i = 1 THEN <<2>> ELSE <<>>]

\* C8: insert_or_assign(k, v) on a present key assigns v in place, presence
\* and size unchanged, and returns (iterator at k, false); on an absent key
\* it sets the presence bit, adds 1 to the size and returns (iterator at k,
\* true); either way find(k) then dereferences to (k, v).
C8_InsertOrAssign ==
    call.name = "insert_or_assign" =>
        /\ ret = IteratorBool([current_index_ |-> ord_of_call], ~pre.array_set_[ord_of_call])
        /\ array_set_[ord_of_call]
        /\ IF pre.array_set_[ord_of_call]
           THEN array_set_ = pre.array_set_ /\ size_ = pre.size_
           ELSE size_ = pre.size_ + 1
        /\ find(Self, call.key) # end(Self)
        /\ PairProvider_get(Self, find(Self, call.key)) = <<call.key, call.arg[1]>>

C8_Witness ==
    /\ call.name = "insert_or_assign"
    /\ pre.array_set_[ord_of_call]
    /\ pre.values_[ord_of_call] = <<1>>
    /\ values_[ord_of_call] = <<2>>

\* C9: try_emplace(k, args...) and emplace(k, v) never overwrite: on a
\* present key nothing changes and the result is (iterator at k, false); on
\* an absent key the element is constructed from the arguments, the presence
\* bit is set, the size grows by 1 and the result is (iterator at k, true).
C9_TryEmplace ==
    call.name \in {"try_emplace", "emplace"} =>
        IF pre.array_set_[ord_of_call]
        THEN /\ Self = pre
             /\ ret = IteratorBool([current_index_ |-> ord_of_call], FALSE)
        ELSE /\ array_set_[ord_of_call]
             /\ values_[ord_of_call] = (IF call.arg = <<>> THEN <<DefaultV>> ELSE call.arg)
             /\ size_ = pre.size_ + 1
             /\ ret = IteratorBool([current_index_ |-> ord_of_call], TRUE)

C9_Witness ==
    /\ call.name = "emplace"
    /\ pre.array_set_[ord_of_call]
    /\ pre.values_[ord_of_call] # call.arg
    /\ values_[ord_of_call] = pre.values_[ord_of_call]

\* Every domain value occurs exactly once in the list.
CoversOnce(list) ==
    /\ Len(list) = ENUM_COUNT
    /\ {list[j][1] : j \in 1 .. Len(list)} = K

\* C10: create_with_all_entries on a list in which every domain value occurs
\* exactly once calls no policy operation and returns an engine of size N in
\* which every key is present and maps to the value paired with it.
C10_CreateWithAllEntries ==
    (call.name = "create_with_all_entries" /\ CoversOnce(pairs)) =>
        /\ policy = <<>>
        /\ ~aborted
        /\ ret = EngineRet
        /\ size(Self) = ENUM_COUNT
        /\ \A j \in 1 .. Len(pairs) :
              /\ contains(Self, pairs[j][1])
              /\ values_[ordinal(pairs[j][1])] = <<pairs[j][2]>>

C10_Witness ==
    /\ call.name = "create_with_all_entries"
    /\ pairs = << <<"BLUE", 2>>, <<"RED", 0>>, <<"YELLOW", 1>> >>
    /\ ret = EngineRet
    /\ values_ = [i \in Ordinals |-> IF i = 0 THEN <<0>> ELSE IF i = 1 THEN <<1>> ELSE <<2>>]

\* The indices of the pairs whose key already occurred earlier in the list.
Repeats(list) ==
    {j \in 1 .. Len(list) : \E i \in 1 .. (j - 1) : list[i][1] = list[j][1]}

FirstRepeat(list) == CHOOSE j \in Repeats(list) : \A i \in Repeats(list) : j <= i

\* C11: create_with_all_entries on a list in which a key occurs twice calls
\* duplicate_enum_entries, and nothing else, when it reaches the first
\* repeated pair (the pairs before it are in the output, no later one is),
\* and returns no engine.
C11_CreateDuplicate ==
    (call.name = "create_with_all_entries" /\ Repeats(pairs) # {}) =>
        /\ policy = <<duplicate_enum_entries>>
        /\ aborted
        /\ ret = NoRet
        /\ Present(Self) = {ordinal(pairs[i][1]) : i \in 1 .. (FirstRepeat(pairs) - 1)}
        /\ size(Self) = FirstRepeat(pairs) - 1

C11_Witness ==
    /\ call.name = "create_with_all_entries"
    /\ pairs = << <<"BLUE", 2>>, <<"YELLOW", 1>>, <<"BLUE", 2>> >>
    /\ policy = <<duplicate_enum_entries>>
    /\ aborted
    /\ size_ = 2

\* C12: create_with_all_entries on a list without a repeated key that does
\* not cover the domain calls missing_enum_entries, and nothing else, and
\* returns no engine.
C12_CreateMissing ==
    (/\ call.name = "create_with_all_entries"
     /\ Repeats(pairs) = {}
     /\ {pairs[j][1] : j \in 1 .. Len(pairs)} # K) =>
        /\ policy = <<missing_enum_entries>>
        /\ aborted
        /\ ret = NoRet

C12_Witness ==
    /\ call.name = "create_with_all_entries"
    /\ pairs = << <<"RED", 1>>, <<"BLUE", 2>> >>
    /\ policy = <<missing_enum_entries>>
    /\ aborted


\* The engine the last special member function was called on, the engine it
\* took as its argument, and both as they were before the call.
This == Engine(call.on)

Source == Engine(Other(call.on))

PreThis == IF call.on = "a" THEN pre ELSE pre_other

PreSource == IF call.on = "a" THEN pre_other ELSE pre

\* The slots holding a live element.
LiveSlots(e) == {i \in Ordinals : e.values_[i] # <<>>}

\* C13: move-construction b(std::move(a)) gives b exactly the presence bits,
\* the size and the element values a held and leaves a cleared (no presence
\* bit, size 0), so that destroying a afterwards destroys no element.
C13_MoveConstruct ==
    call.name = "move_constructor" =>
        /\ other.array_set_ = pre.array_set_
        /\ other.size_ = pre.size_
        /\ other.values_ = pre.values_
        /\ Present(Self) = {}
        /\ size(Self) = 0
        /\ destructor(Self).log = <<>>

C13_Witness ==
    /\ call.name = "move_constructor"
    /\ pre.size_ = 2
    /\ other.size_ = 2
    /\ size_ = 0
    /\ Len(events) = 4

\* C14 as stated: move-assignment between distinct engines leaves the source
\* cleared (no presence bit, size 0), so that destroying the source afterwards
\* destroys no element.
C14_MoveAssignClearsSource ==
    call.name = "move_assign" =>
        /\ Present(Source) = {}
        /\ size(Source) = 0
        /\ destructor(Source).log = <<>>

\* C14: move-assignment between distinct engines gives the target the presence
\* bits, the size and the element values the source held, and does not clear
\* the source: the source keeps its presence bits and size, its elements stay
\* live (moved-from), and destroying the source afterwards destroys exactly
\* those elements.
C14_MoveAssign ==
    call.name = "move_assign" =>
        /\ This.array_set_ = PreSource.array_set_
        /\ This.size_ = PreSource.size_
        /\ This.values_ = PreSource.values_
        /\ Source.array_set_ = PreSource.array_set_
        /\ Source.size_ = PreSource.size_
        /\ LiveSlots(Source) = Present(PreSource)
        /\ Len(destructor(Source).log) = size(PreSource)
        /\ \A j \in 1 .. size(PreSource) : destructor(Source).log[j].op = "destroy"

C14_Witness ==
    /\ call.name = "move_assign"
    /\ call.on = "a"
    /\ pre_other.size_ = 2
    /\ other.size_ = 2
    /\ size_ = 2

\* C15: copy-construction constructs exactly one element per present slot of
\* the source, from the source's element at that slot, and none for an absent
\* slot; the copy has the source's presence bits, size and element values
\* (copy == source) and the source is unchanged.
C15_CopyConstruct ==
    call.name = "copy_constructor" =>
        /\ Len(events) = Cardinality(Present(pre))
        /\ \A j \in 1 .. Len(events) :
              /\ events[j].engine = "b"
              /\ events[j].op = "construct"
              /\ events[j].index \in Present(pre)
        /\ \A i \in Present(pre) : \E j \in 1 .. Len(events) : events[j].index = i
        /\ other.array_set_ = pre.array_set_
        /\ other.size_ = pre.size_
        /\ \A i \in Present(pre) : unchecked_at(other, i) = unchecked_at(pre, i)
        /\ equals(other, Self)
        /\ Self = pre

C15_Witness ==
    /\ call.name = "copy_constructor"
    /\ size_ = 2
    /\ other.size_ = 2
    /\ Len(events) = 2
    /\ \E i \in Present(Self) : unchecked_at(Self, i) = MaxValue

RECURSIVE rtraverse(_, _, _)
rtraverse(e, it, acc) ==
    IF it = rend(e) THEN acc
    ELSE rtraverse(e, recede(e, it, BeforeBegin), Append(acc, PairProvider_get(e, it)))

ReverseTraversal(e) == rtraverse(e, rbegin(e), <<>>)

\* C18: on a fully populated engine the reverse traversal rbegin() to rend()
\* and the forward traversal begin() to end() both yield N keys, and the
\* reverse key sequence is the forward one reversed.
C18_ForwardReverseSymmetry ==
    size(Self) = ENUM_COUNT =>
        LET f == ForwardTraversal(Self)
            r == ReverseTraversal(Self)
        IN  /\ Len(f) = ENUM_COUNT
            /\ Len(r) = ENUM_COUNT
            /\ \A j \in 1 .. ENUM_COUNT : r[j][1] = f[ENUM_COUNT + 1 - j][1]

C18_Witness ==
    /\ size(Self) = ENUM_COUNT
    /\ Present(Self) = Ordinals
    /\ [j \in 1 .. ENUM_COUNT |-> ReverseTraversal(Self)[j][1]] = <<"BLUE", "YELLOW", "RED">>
    /\ [j \in 1 .. ENUM_COUNT |-> ForwardTraversal(Self)[j][1]] = <<"RED", "YELLOW", "BLUE">>

\* The iterator denotes an element.
Denotes(e, it) == it.reference_provider_.current_index_ \in Present(e)

\* C19 as stated: the const iterator made from a mutable one, FORWARD or
\* REVERSE, compares equal to it, dereferences to the same element, and its
\* provider is at the position of the mutable iterator's provider.
C19_ConversionPreservesPosition ==
    call.name = "to_const" =>
        /\ operator_equals(ret.first, pre_iter)
        /\ ret.first.reference_provider_ = pre_iter.reference_provider_
        /\ Denotes(Self, pre_iter) =>
              /\ Denotes(Self, ret.first)
              /\ operator_star(Self, ret.first) = operator_star(Self, pre_iter)

\* C20: r.base() is the FORWARD iterator one position ahead of the REVERSE
\* iterator r: end() for rbegin(), begin() for rend(), and for r at an element
\* the iterator whose decrement denotes that element; r is as it was.
C20_Base ==
    call.name = "base" =>
        LET r == pre_iter
            b == ret.first
        IN  /\ iter = r
            /\ b.DIRECTION = "FORWARD"
            /\ b.CONSTNESS = r.CONSTNESS
            /\ operator_equals(r, bi_rbegin(Self, r.CONSTNESS)) =>
                  operator_equals(b, bi_end(Self, r.CONSTNESS))
            /\ operator_equals(r, bi_rend(Self, r.CONSTNESS)) =>
                  operator_equals(b, bi_begin(Self, r.CONSTNESS))
            /\ Denotes(Self, r) =>
                  /\ b.reference_provider_.current_index_ > r.reference_provider_.current_index_
                  /\ operator_equals(operator_decrement(Self, b, BeforeBegin), r)
                  /\ operator_star(Self, operator_decrement(Self, b, BeforeBegin))
                        = operator_star(Self, r)

C20_Witness ==
    /\ call.name = "base"
    /\ Present(Self) = {0, 2}
    /\ iter.reference_provider_.current_index_ = 0
    /\ ret.first.reference_provider_.current_index_ = 2
    /\ ret.first.DIRECTION = "FORWARD"


\* The largest present ordinal below i, or before-begin.
PresentBelow(e, i) ==
    LET hits == {j \in Present(e) : j < i}
    IN  IF hits = {} THEN BeforeBegin ELSE CHOOSE j \in hits : \A h \in hits : j >= h

\* The smallest present ordinal above i, or N.
PresentAbove(e, i) ==
    LET hits == {j \in Present(e) : j > i}
    IN  IF hits = {} THEN ENUM_COUNT ELSE CHOOSE j \in hits : \A h \in hits : j <= h

\* The number of increments that take the reverse iterator it to rend(), at
\* most n of them; n + 1 when rend() is not met.
RECURSIVE ReverseSteps(_, _, _)
ReverseSteps(e, it, n) ==
    IF operator_equals(it, bi_rend(e, it.CONSTNESS)) THEN 0
    ELSE IF n = 0 THEN 1
    ELSE 1 + ReverseSteps(e, operator_increment(e, it, BeforeBegin), n - 1)

\* C21: rbegin() rests on the highest present ordinal, or equals rend() on an
\* empty engine; ++ takes a reverse iterator to the largest present ordinal
\* below its own, from the lowest present ordinal to rend() (before-begin);
\* -- takes it to the smallest present ordinal above; rbegin() reaches rend()
\* in exactly size() increments.
C21_ReverseIterator ==
    /\ call.name = "rbegin" =>
          /\ iter.DIRECTION = "REVERSE"
          /\ iter.reference_provider_.current_index_ = PresentBelow(Self, ENUM_COUNT)
          /\ iter.reference_provider_ = rbegin(Self)
          /\ empty(Self) => operator_equals(iter, bi_rend(Self, iter.CONSTNESS))
          /\ ~empty(Self) => Denotes(Self, iter)
          /\ ReverseSteps(Self, iter, ENUM_COUNT) = size(Self)
    /\ call.name = "rend" =>
          /\ iter.reference_provider_.current_index_ = BeforeBegin
          /\ iter.reference_provider_ = rend(Self)
    /\ (call.name = "operator++" /\ pre_iter.DIRECTION = "REVERSE") =>
          iter.reference_provider_.current_index_
              = PresentBelow(Self, pre_iter.reference_provider_.current_index_)
    /\ (call.name = "operator--" /\ pre_iter.DIRECTION = "REVERSE") =>
          iter.reference_provider_.current_index_
              = PresentAbove(Self, pre_iter.reference_provider_.current_index_)

C21_Witness ==
    /\ call.name = "operator++"
    /\ pre_iter.DIRECTION = "REVERSE"
    /\ Present(Self) = {0, 2}
    /\ pre_iter = bi_rbegin(Self, pre_iter.CONSTNESS)
    /\ pre_iter.reference_provider_.current_index_ = 2
    /\ iter.reference_provider_.current_index_ = 0


\* The ordinals the last call was aimed at.
Targets ==
    CASE call.name \in {"insert", "insert_or_assign", "try_emplace", "emplace",
                        "operator[]", "assign", "erase", "at"} -> {ord_of_call}
      [] call.name = "erase_pos"   -> {call.arg[1]}
      [] call.name = "erase_range" -> call.arg[1] .. (call.arg[2] - 1)
      [] call.name = "clear"       -> Ordinals
      [] call.name \in {"erase_if", "erase_while_iterating"} ->
            {i \in Present(pre) : holds(call.arg[1], PairProvider_get(pre, [current_index_ |-> i]))}
      [] OTHER -> {}

Erasures == {"erase", "erase_pos", "erase_range", "clear", "erase_if", "erase_while_iterating"}

\* C22: an iterator obtained at a present slot i rests on i, and after a call
\* aimed at other slots only it still denotes slot i: i is present, the
\* iterator made at i is the same, and it dereferences to (key of i, value of
\* slot i), the value it had. A call other than an erasure keeps every present
\* slot present; an erasure aimed at i leaves i not present.
C22_IteratorValidity ==
    \A i \in Present(pre) :
        LET it == create_iterator(pre, i)
        IN  /\ it.current_index_ = i
            /\ i \notin Targets =>
                  /\ i \in Present(Self)
                  /\ create_iterator(Self, i) = it
                  /\ PairProvider_get(Self, it) = <<ENUM_VALUES[i], unchecked_at(pre, i)>>
            /\ call.name \notin Erasures => i \in Present(Self)
            /\ (call.name \in Erasures /\ i \in Targets) => i \notin Present(Self)

C22_Witness ==
    /\ call.name = "erase"
    /\ call.key = "RED"
    /\ Present(pre) = Ordinals
    /\ Present(Self) = {1, 2}
    /\ PairProvider_get(Self, create_iterator(pre, 2)) = <<"BLUE", 2>>


SingleKeyMutations ==
    {"insert", "insert_or_assign", "try_emplace", "emplace", "operator[]", "erase", "erase_pos"}

\* C23: insert, insert_or_assign, try_emplace, emplace, operator[], erase(key)
\* and erase(iterator) aimed at key k leave the presence bit and the stored
\* value of every other ordinal as they were, and change the size by +1 when
\* the bit of k went from false to true, by -1 when it went from true to false,
\* and by 0 otherwise.
C23_SingleKeyFrame ==
    call.name \in SingleKeyMutations =>
        LET k == CHOOSE i \in Targets : TRUE
        IN  /\ Targets = {k}
            /\ \A j \in Ordinals \ {k} :
                  /\ array_set_[j] = pre.array_set_[j]
                  /\ values_[j] = pre.values_[j]
            /\ size_ - pre.size_ =
                  IF ~pre.array_set_[k] /\ array_set_[k] THEN 1
                  ELSE IF pre.array_set_[k] /\ ~array_set_[k] THEN 0 - 1
                  ELSE 0

C23_Witness ==
    /\ call.name = "erase_pos"
    /\ call.arg = <<1>>
    /\ pre.size_ = ENUM_COUNT
    /\ size_ = ENUM_COUNT - 1
    /\ Present(Self) = {0, 2}
    /\ values_[0] = <<1>>
    /\ values_[2] = <<2>>


\* C24: clear() destroys exactly the elements that were present, each once,
\* and leaves no presence bit set and size 0, so that empty() holds and
\* begin() = end(); on an empty engine it changes nothing.
C24_Clear ==
    call.name = "clear" =>
        /\ Len(events) = Cardinality(Present(pre))
        /\ {events[j].index : j \in 1 .. Len(events)} = Present(pre)
        /\ \A j \in 1 .. Len(events) : events[j].op = "destroy" /\ events[j].live
        /\ Present(Self) = {}
        /\ LiveSlots(Self) = {}
        /\ size(Self) = 0
        /\ empty(Self)
        /\ begin(Self) = end(Self)
        /\ empty(pre) => (Self = pre /\ events = <<>>)

C24_Witness ==
    /\ call.name = "clear"
    /\ Present(pre) = {0, 2}
    /\ Len(events) = 2
    /\ size_ = 0


\* C25: erase(first, last) with first at ordinal from and last at ordinal to
\* (N for end()), from <= to, destroys exactly the present slots with ordinal
\* in [from, to), each once, leaves every other slot as it was, lowers the size
\* by the number destroyed and returns an iterator equal to last; with
\* first = last it changes nothing.
C25_EraseRange ==
    call.name = "erase_range" =>
        LET from   == call.arg[1]
            to     == call.arg[2]
            erased == {i \in Present(pre) : from <= i /\ i < to}
        IN  /\ from <= to
            /\ Len(events) = Cardinality(erased)
            /\ {events[j].index : j \in 1 .. Len(events)} = erased
            /\ \A j \in 1 .. Len(events) : events[j].op = "destroy" /\ events[j].live
            /\ Present(Self) = Present(pre) \ erased
            /\ \A i \in Ordinals \ erased : values_[i] = pre.values_[i]
            /\ size(Self) = size(pre) - Cardinality(erased)
            /\ ret = IteratorRet([current_index_ |-> to])
            /\ to = ENUM_COUNT => ret.first = end(Self)
            /\ to < ENUM_COUNT => to \in Present(Self)
            /\ from = to => Self = pre

C25_Witness ==
    /\ call.name = "erase_range"
    /\ call.arg = <<0, 2>>
    /\ Present(pre) = Ordinals
    /\ Present(Self) = {2}
    /\ size_ = 1
    /\ ret.first.current_index_ = 2


\* The present (key, value) pairs of an engine.
PresentPairs(e) == {<<ENUM_VALUES[i], e.values_[i][1]>> : i \in Present(e)}

\* C26: a == b is true exactly when at every ordinal the presence bits agree
\* and, where present, the elements are equal, that is when the two engines
\* hold the same present (key, value) pairs, whatever the slots that are not
\* present hold; it is reflexive and symmetric.
C26_Equality ==
    call.name = "operator==" =>
        /\ ret.value =
              \A i \in Ordinals :
                  /\ array_set_[i] = other.array_set_[i]
                  /\ array_set_[i] => values_[i][1] = other.values_[i][1]
        /\ ret.value = (PresentPairs(Self) = PresentPairs(other))
        /\ equals(other, Self) = ret.value
        /\ equals(Self, Self)
        /\ equals(other, other)

C26_Witness ==
    /\ call.name = "operator=="
    /\ ret.value
    /\ Present(Self) = {0, 2}
    /\ values_[1] = <<MaxValue>>
    /\ other.values_[1] = <<>>


\* C27: in every reachable state and for every key k, contains(k) is the
\* presence bit of k, count(k) is 1 when contains(k) and 0 otherwise, and
\* find(k) differs from end() exactly when contains(k), and then denotes the
\* slot of k; a call of find, contains or count returns these and leaves the
\* engine as it was.
C27_LookupConsistency ==
    /\ \A k \in K :
          /\ contains(Self, k) = array_set_[ordinal(k)]
          /\ count(Self, k) = IF contains(Self, k) THEN 1 ELSE 0
          /\ (find(Self, k) # end(Self)) = contains(Self, k)
          /\ contains(Self, k) =>
                /\ find(Self, k).current_index_ = ordinal(k)
                /\ PairProvider_get(Self, find(Self, k)) = <<k, unchecked_at(Self, ordinal(k))>>
          /\ empty(Self) = (size(Self) = 0)
    /\ call.name \in {"find", "contains", "count"} =>
          /\ Self = pre
          /\ events = <<>>
          /\ call.name = "find" => ret = IteratorRet(find(pre, call.key))
          /\ call.name = "contains" => ret = BoolRet(pre.array_set_[ord_of_call])
          /\ call.name = "count" => ret = SizeRet(IF pre.array_set_[ord_of_call] THEN 1 ELSE 0)

C27_Witness ==
    /\ call.name = "find"
    /\ call.key = "YELLOW"
    /\ Present(Self) = {0, 2}
    /\ ret.first = end(Self)
    /\ find(Self, "BLUE").current_index_ = 2


\* The engine holding, for each key of the list, the value of the first pair
\* with that key.
FirstWins(list) ==
    LET first(i) == CHOOSE j \in 1 .. Len(list) :
                        /\ ordinal(list[j][1]) = i
                        /\ \A h \in 1 .. (j - 1) : ordinal(list[h][1]) # i
        bits == [i \in Ordinals |-> \E j \in 1 .. Len(list) : ordinal(list[j][1]) = i]
    IN  [values_    |-> [i \in Ordinals |-> IF bits[i] THEN <<list[first(i)][2]>> ELSE <<>>],
         array_set_ |-> bits,
         size_      |-> Cardinality({i \in Ordinals : bits[i]}),
         log        |-> <<>>]

\* The engine after insert(list[1]), insert(list[2]), ... on an empty engine.
RECURSIVE OneAtATime(_, _, _)
OneAtATime(e, list, j) ==
    IF j > Len(list) THEN [e EXCEPT !.log = <<>>]
    ELSE OneAtATime(insert(e, list[j]).e, list, j + 1)

\* C28: the engine built by an EnumMapBuilder from single-pair, list and range
\* inserts, and the engine made by the range or the initializer-list
\* constructor, is the engine that inserting the same pairs one at a time into
\* an empty engine gives: each key has the value of its first pair. build() on
\* an lvalue builder leaves the builder holding these pairs, and an insert into
\* the builder afterwards changes what the builder builds next, not the engine
\* built before.
C28_BuilderEqualsInserts ==
    /\ call.name \in {"build_lvalue", "build_rvalue", "range_constructor", "list_constructor"} =>
          /\ Self = OneAtATime(EnumMapBase, pairs, 1)
          /\ Self = FirstWins(pairs)
          /\ equals(Self, OneAtATime(EnumMapBase, pairs, 1))
          /\ ~aborted
    /\ call.name = "build_lvalue" => other = FirstWins(pairs)
    /\ call.name = "build_rvalue" => Present(other) = {}
    /\ call.name = "builder_insert" =>
          /\ Self = pre
          /\ Self = FirstWins(pairs)
          /\ [build_lvalue(other).this EXCEPT !.log = <<>>]
                = FirstWins(Append(pairs, <<call.key, call.arg[1]>>))

C28_Witness ==
    /\ call.name = "builder_insert"
    /\ call.key = "YELLOW"
    /\ pairs = << <<"BLUE", 1>>, <<"RED", 2>>, <<"BLUE", 2>> >>
    /\ values_ = [i \in Ordinals |-> IF i = 0 THEN <<2>> ELSE IF i = 2 THEN <<1>> ELSE <<>>]
    /\ other.size_ = 3
    /\ size_ = 2


\* C29: create_with_keys(keys, value) returns an engine in which a key is
\* present exactly when it occurs in keys, every present key has the given
\* value, and the size is the number of distinct keys given; a repeated key
\* changes nothing and no checking-policy operation is called.
C29_CreateWithKeys ==
    call.name = "create_with_keys" =>
        LET given == {ordinal(pairs[j][1]) : j \in 1 .. Len(pairs)}
        IN  /\ ret = EngineRet
            /\ policy = <<>>
            /\ ~aborted
            /\ Present(Self) = given
            /\ \A i \in Ordinals : values_[i] = IF i \in given THEN <<call.arg[1]>> ELSE <<>>
            /\ size(Self) = Cardinality(given)

C29_Witness ==
    /\ call.name = "create_with_keys"
    /\ KeysOf(pairs) = <<"BLUE", "RED", "BLUE">>
    /\ call.arg = <<2>>
    /\ size_ = 2
    /\ values_[2] = <<2>>


\* C30: erase_if(engine, predicate) removes every present element whose
\* (key, value) pair satisfies the predicate and no other element, returns the
\* number of elements removed, lowers the size by that number, and leaves the
\* values of the remaining elements as they were.
C30_EraseIf ==
    call.name = "erase_if" =>
        LET satisfied == {i \in Present(pre) :
                             holds(call.arg[1], <<ENUM_VALUES[i], unchecked_at(pre, i)>>)}
        IN  /\ ~aborted
            /\ Present(Self) = Present(pre) \ satisfied
            /\ ret = SizeRet(Cardinality(satisfied))
            /\ size(Self) = size(pre) - Cardinality(satisfied)
            /\ \A i \in Present(Self) : unchecked_at(Self, i) = unchecked_at(pre, i)

C30_Witness ==
    /\ call.name = "erase_if"
    /\ call.arg[1] = [kind |-> "value_is", operand |-> 1]
    /\ Present(pre) = Ordinals
    /\ unchecked_at(pre, 0) = 1
    /\ unchecked_at(pre, 1) = 1
    /\ unchecked_at(pre, 2) = 0
    /\ ret = SizeRet(2)
    /\ Present(Self) = {2}
    /\ unchecked_at(Self, 2) = 0


\* C31: ++ takes a forward iterator at a present ordinal i to the smallest
\* present ordinal above i, or to end (N); -- takes a forward iterator at end,
\* or at a present ordinal that is not the first one, to the largest present
\* ordinal below its position. With the engine unchanged, -- after ++ and ++
\* after -- give the iterator back where it started. Post-increment and
\* post-decrement move the iterator the same way and return a copy at the old
\* position.
C31_ForwardCursor ==
    LET from == pre_iter.reference_provider_.current_index_
        to   == iter.reference_provider_.current_index_
    IN  /\ (call.name \in {"operator++", "operator++(int)"} /\ pre_iter.DIRECTION = "FORWARD") =>
              /\ from \in Present(Self)
              /\ to = PresentAbove(Self, from)
              /\ \A ub \in Positions : operator_decrement(Self, iter, ub) = pre_iter
        /\ (call.name \in {"operator--", "operator--(int)"} /\ pre_iter.DIRECTION = "FORWARD") =>
              /\ from = ENUM_COUNT \/ from \in Present(Self)
              /\ to = PresentBelow(Self, from)
              /\ to \in Present(Self)
              /\ \A ub \in Positions : operator_increment(Self, iter, ub) = pre_iter
        /\ call.name \in {"operator++(int)", "operator--(int)"} =>
              /\ ret = IteratorRet(pre_iter)
              /\ (pre_iter.DIRECTION = "FORWARD" \/ from # BeforeBegin) => iter # pre_iter
        /\ call.name \in {"operator++", "operator--"} => ret = NoRet

C31_Witness ==
    /\ call.name = "operator++(int)"
    /\ pre_iter.DIRECTION = "FORWARD"
    /\ Present(Self) = {0, 2}
    /\ pre_iter.reference_provider_.current_index_ = 0
    /\ iter.reference_provider_.current_index_ = 2
    /\ ret = IteratorRet(pre_iter)


\* The ordinals of a set in rising order.
RECURSIVE Rising(_)
Rising(set) ==
    IF set = {} THEN <<>>
    ELSE LET least == CHOOSE i \in set : \A j \in set : i <= j
         IN  <<least>> \o Rising(set \ {least})

\* C32: erase(pos) with pos at present slot i destroys the element of slot i
\* and no other: the bit of i is cleared, the size goes down by one, every
\* other slot keeps its bit and value. It returns the iterator at the smallest
\* present ordinal above i, or end(), never at i. A loop from begin() that
\* continues from the iterator erase(it) returns, and from ++it otherwise,
\* meets end() having visited every element that was present exactly once,
\* removed the elements satisfying the predicate and kept the others.
C32_ErasePos ==
    /\ call.name = "erase_pos" =>
          LET i == call.arg[1]
          IN  /\ i \in Present(pre)
              /\ events = <<[engine |-> "a", op |-> "destroy", index |-> i, live |-> TRUE]>>
              /\ ~array_set_[i]
              /\ size(Self) = size(pre) - 1
              /\ \A j \in Ordinals \ {i} :
                    /\ array_set_[j] = pre.array_set_[j]
                    /\ values_[j] = pre.values_[j]
              /\ ret = IteratorRet([current_index_ |-> PresentAbove(pre, i)])
              /\ ret.first.current_index_ # i
              /\ ret.first.current_index_ \in Present(Self) \cup {ENUM_COUNT}
              /\ ret.first = end(Self) <=> \A j \in Present(Self) : j < i
    /\ call.name = "erase_while_iterating" =>
          LET satisfied == {i \in Present(pre) :
                               holds(call.arg[1], <<ENUM_VALUES[i], unchecked_at(pre, i)>>)}
          IN  /\ ret.terminated
              /\ ret.visited = Rising(Present(pre))
              /\ Present(Self) = Present(pre) \ satisfied
              /\ \A i \in Present(Self) : unchecked_at(Self, i) = unchecked_at(pre, i)
              /\ Len(events) = Cardinality(satisfied)

C32_Witness ==
    /\ call.name = "erase_while_iterating"
    /\ call.arg[1] = [kind |-> "value_is", operand |-> 1]
    /\ Present(pre) = Ordinals
    /\ unchecked_at(pre, 0) = 1
    /\ unchecked_at(pre, 1) = 1
    /\ unchecked_at(pre, 2) = 2
    /\ ret = VisitedRet(<<0, 1, 2>>, TRUE)
    /\ Present(Self) = {2}


\* The events of the last call that are of kind op and at slot i.
EventsAt(op, i) == {j \in 1 .. Len(events) : events[j].op = op /\ events[j].index = i}

\* C33: copy-assignment of an engine to itself destroys and constructs nothing
\* and leaves the state as it was. Copy-assignment a = b between two engines
\* destroys every element that was live in a exactly once and no other,
\* constructs exactly one element per present slot of b, into a slot holding
\* no element and after the destructions, gives a the presence bits, the size
\* and the element values of b (a == b), and leaves b unchanged.
C33_CopyAssign ==
    /\ call.name = "copy_assign_self" =>
          /\ events = <<>>
          /\ This = PreThis
          /\ Source = PreSource
    /\ call.name = "copy_assign" =>
          /\ \A j \in 1 .. Len(events) : events[j].engine = call.on
          /\ \A i \in Ordinals :
                /\ Cardinality(EventsAt("destroy", i)) = IF i \in LiveSlots(PreThis) THEN 1 ELSE 0
                /\ Cardinality(EventsAt("construct", i)) = IF i \in Present(PreSource) THEN 1 ELSE 0
                /\ \A d \in EventsAt("destroy", i) : events[d].live
                /\ \A c \in EventsAt("construct", i) : ~events[c].live
          /\ \A d, c \in 1 .. Len(events) :
                (events[d].op = "destroy" /\ events[c].op = "construct") => d < c
          /\ Len(events) = size(PreThis) + Cardinality(Present(PreSource))
          /\ This.array_set_ = PreSource.array_set_
          /\ This.size_ = PreSource.size_
          /\ \A i \in Present(PreSource) : unchecked_at(This, i) = unchecked_at(PreSource, i)
          /\ LiveSlots(This) = Present(PreSource)
          /\ equals(This, Source)
          /\ Source = PreSource

C33_Witness ==
    /\ call.name = "copy_assign"
    /\ call.on = "a"
    /\ Present(pre) = {0, 1}
    /\ Present(pre_other) = {1, 2}
    /\ unchecked_at(pre, 1) # unchecked_at(pre_other, 1)
    /\ Len(events) = 4
    /\ Present(Self) = {1, 2}
    /\ unchecked_at(Self, 1) = unchecked_at(other, 1)

=============================================================================
